---- MODULE Spec2Model ----
(***************************************************************************)
(* RemoteContextProvider (components/server/src/workspace/                 *)
(* remote-context-provider.ts): the gRPC handler getWorkspaceContext, the  *)
(* credential resolution getUser and the translation of the internal       *)
(* start specification into the wire specification.                        *)
(*                                                                         *)
(* JavaScript strings are modelled as tuples of one-character strings so   *)
(* that startsWith and substring are computed.  An async function runs     *)
(* without interruption from one await to the next, so every action below  *)
(* is one such run: it ends when the next collaborator call is in flight   *)
(* or when the transport callback has been invoked.                        *)
(***************************************************************************)
EXTENDS Integers, Sequences, FiniteSets, TLC

\* Number of calls the transport delivers (each is one async task).
NCalls == 2

Calls == 1..NCalls

(***************************************************************************)
(* Strings.                                                                *)
(***************************************************************************)
BearerPrefix == <<"B", "e", "a", "r", "e", "r", " ">>

\* String.prototype.startsWith
StartsWith(s, p) ==
    /\ Len(s) >= Len(p)
    /\ SubSeq(s, 1, Len(p)) = p

\* String.prototype.substring(start)
Substring(s, start) == SubSeq(s, start + 1, Len(s))

TokAbc == <<"a", "b", "c">>
TokDef == <<"d", "e", "f">>
TokXyz == <<"x", "y", "z">>

\* Values an Authorization metadata entry can carry.
HdrAbc      == BearerPrefix \o TokAbc
HdrDef      == BearerPrefix \o TokDef
HdrXyz      == BearerPrefix \o TokXyz
HdrEmptyTok == BearerPrefix
HdrLower    == <<"b", "e", "a", "r", "e", "r", " ">> \o TokAbc
HdrNoSpace  == <<"B", "e", "a", "r", "e", "r">> \o TokAbc
HdrEmpty    == <<>>

\* metadata.get("Authorization"): the list of values of the entry (empty
\* when the entry is absent).
AuthLists ==
    { <<>>,
      <<HdrAbc>>, <<HdrDef>>, <<HdrXyz>>, <<HdrEmptyTok>>,
      <<HdrLower>>, <<HdrNoSpace>>, <<HdrEmpty>>,
      <<HdrLower, HdrAbc>>, <<HdrAbc, HdrLower>> }

\* call.request.getContextUrl()
ContextUrls == { <<"r", "e", "p", "o", " ">> }

(***************************************************************************)
(* crypto.createHash('sha256').update(token, 'utf8').digest("hex"): a      *)
(* one-way injective image of the token, of another shape than any token   *)
(* or header value.                                                        *)
(***************************************************************************)
Sha256Hex(token) == <<"sha256">> \o token

\* Variant: the lookup is scoped to another kind of token.
LookupTokenTypeApi == "API_AUTH_TOKEN"

\* GitpodTokenType.MACHINE_AUTH_TOKEN, the kind the lookup is scoped to.
LookupTokenType == "MACHINE_AUTH_TOKEN"

(***************************************************************************)
(* Collaborators (not part of this file: the user DB, the context parser,  *)
(* the workspace factory and the workspace starter).                       *)
(***************************************************************************)
NoUser == [id |-> "undefined"]
U1 == [id |-> "U1"]
U2 == [id |-> "U2"]

\* Content of the credential store: token digests with kind and owner.
\* The digest of "xyz" is held as an API token only, owned by U2.
TokenEntries ==
    { [hash |-> Sha256Hex(TokAbc), type |-> "MACHINE_AUTH_TOKEN", user |-> U1],
      [hash |-> Sha256Hex(TokDef), type |-> "MACHINE_AUTH_TOKEN", user |-> U2],
      [hash |-> Sha256Hex(TokXyz), type |-> "API_AUTH_TOKEN", user |-> U2] }

NoEntry == [hash |-> <<>>, type |-> "undefined", user |-> NoUser]

\* UserDB.findUserByGitpodToken(hash, type): the entry of that digest and
\* kind, or undefined.
FindUserByGitpodToken(hash, type) ==
    LET m == { e \in TokenEntries : e.hash = hash /\ e.type = type }
    IN  IF m = {} THEN NoEntry ELSE CHOOSE e \in m : TRUE

\* ContextParser.normalizeContextURL: trims the raw string.
NormalizeContextURL(url) ==
    IF Len(url) > 0 /\ url[Len(url)] = " "
    THEN SubSeq(url, 1, Len(url) - 1)
    ELSE url

\* UserDB.getEnvVars(userId): the stored variables of that identity.
GetEnvVars(userId) ==
    IF userId = "U1"
    THEN << [name |-> "FOO", value |-> "bar"] >>
    ELSE << >>

\* ContextParser.handle resolves a normalized URL to a context.
Contexts == { "C" }

NoWorkspace == [id |-> 0, ownerId |-> "undefined"]
NoInstance == [id |-> 0, workspaceId |-> 0]

\* WorkspaceStarter.createSpec: the internal start specification.  Its
\* structured fields (git, initializer, the port list) are objects, held
\* by reference.
CreateSpecResult(ws, inst, vars) ==
    [ admission |-> "ADMIT_OWNER_ONLY",
      checkoutLocation |-> "repo",
      envvars |-> [i \in DOMAIN vars |->
                      [name |-> vars[i].name, value |-> vars[i].value,
                       mode |-> "APPEND"]],
      git |-> "gitObj",
      ideImage |-> "ide:latest",
      initializer |-> "initObj",
      ports |-> "portsArr",
      timeout |-> "30m",
      workspaceImage |-> "workspace:latest",
      workspaceLocation |-> "/workspace/repo" ]

NoSpec ==
    [ admission |-> "", checkoutLocation |-> "", envvars |-> << >>,
      git |-> "", ideImage |-> "", initializer |-> "", ports |-> "",
      timeout |-> "", workspaceImage |-> "", workspaceLocation |-> "" ]

(***************************************************************************)
(* State.                                                                  *)
(***************************************************************************)
VARIABLES
    pc,                     \* where each call's async task is suspended
    metadata,               \* call.metadata.get("Authorization")
    request,                \* call.request.getContextUrl()
    user,                   \* locals of getWorkspaceContext, per call
    normalizedContextUrl,
    context,
    workspace,
    instance,
    envVars,
    originalspec,
    events,                 \* per call: collaborator calls, returns, throws
    cb,                     \* per call: invocations of the transport callback
    consoleLog,             \* what console.log has written
    workspaces,             \* records the workspace factory has created
    instances,              \* instances the workspace starter has allocated
    tpc,                    \* translation on its own: "off", "start", "translated"
    internalSpec,           \* the internal specification given to it
    wireSpec,               \* its translation
    wireSpec2,              \* a second translation of the same specification
    objHeap,                \* content of the message objects, by reference
    arrHeap,                \* content of the list objects, by reference
    lastWrite,              \* the specification a setter was last called through
    serverPc,               \* startServer: "init", "binding", "started", "failed"
    boundPort,              \* the port the listener is bound to, "" when none
    starts,                 \* number of calls of server.start()
    startServerError,       \* what startServer rejected with, "" when nothing
    infoLog                 \* what log.info has written

callVars ==
    << pc, metadata, request, user, normalizedContextUrl, context, workspace,
       instance, envVars, originalspec, events, cb, consoleLog, workspaces,
       instances >>

transVars ==
    << tpc, internalSpec, wireSpec, wireSpec2, objHeap, arrHeap, lastWrite >>

srvVars == << serverPc, boundPort, starts, startServerError, infoLog >>

vars == << callVars, transVars, srvVars >>

\* The collaborator operations a call awaits, in the order of the code.
AwaitOps ==
    { "findUserByGitpodToken", "handle", "createForContext", "newInstance",
      "getEnvVars", "createSpec" }

Ev(kind, op, u, key, tt, ws, inst) ==
    [kind |-> kind, op |-> op, user |-> u, key |-> key, tokenType |-> tt,
     ws |-> ws, inst |-> inst]

\* throw { code: Status.UNAUTHENTICATED }
Unauthenticated == [code |-> "UNAUTHENTICATED", message |-> ""]

\* The error a failing collaborator rejects with.
CollaboratorError(op) == [code |-> "", message |-> op]

\* cb(err) and cb(null, r)
CbError(err) == [err |-> <<err>>, value |-> << >>]
CbValue(r) == [err |-> << >>, value |-> <<r>>]

InitCalls ==
    /\ pc = [c \in Calls |-> "idle"]
    /\ metadata = [c \in Calls |-> << >>]
    /\ request = [c \in Calls |-> << >>]
    /\ user = [c \in Calls |-> NoUser]
    /\ normalizedContextUrl = [c \in Calls |-> << >>]
    /\ context = [c \in Calls |-> ""]
    /\ workspace = [c \in Calls |-> NoWorkspace]
    /\ instance = [c \in Calls |-> NoInstance]
    /\ envVars = [c \in Calls |-> << >>]
    /\ originalspec = [c \in Calls |-> NoSpec]
    /\ events = [c \in Calls |-> << >>]
    /\ cb = [c \in Calls |-> << >>]
    /\ consoleLog = {}
    /\ workspaces = {}
    /\ instances = {}

\* The objects an internal specification refers to, as createSpec built
\* them.
InitHeap ==
    /\ objHeap = [r \in { "gitObj", "initObj", "port1", "port2" } |-> "v0"]
    /\ arrHeap = [r \in { "portsArr" } |-> << "port1" >>]
    /\ lastWrite = ""

\* startServer has not been called.
InitServer ==
    /\ serverPc = "init"
    /\ boundPort = ""
    /\ starts = 0
    /\ startServerError = ""
    /\ infoLog = {}

Init ==
    /\ InitCalls
    /\ InitHeap
    /\ InitServer
    /\ tpc = "off"
    /\ internalSpec = NoSpec
    /\ wireSpec = NoSpec
    /\ wireSpec2 = NoSpec

(***************************************************************************)
(* getUser, up to the credential lookup.                                   *)
(***************************************************************************)
\* if (!auth || auth.length === 0) return;
AuthMissing(auth) == Len(auth) = 0

\* Variant: the last value of the entry is taken.
AuthorizationHeaderLast(auth) == auth[Len(auth)]

\* auth[0].toString()
AuthorizationHeader(auth) == auth[1]

\* Variant: the prefix is compared without its trailing space.
HasBearerPrefixNoSpace(header) ==
    StartsWith(header, SubSeq(BearerPrefix, 1, Len(BearerPrefix) - 1))

\* authorizationHeader.startsWith("Bearer ")
HasBearerPrefix(header) == StartsWith(header, BearerPrefix)

\* authorizationHeader.substring("Bearer ".length)
TokenOf(header) == Substring(header, Len(BearerPrefix))

\* getUser returns undefined before any lookup.
ReturnsBeforeLookup(auth) ==
    \/ AuthMissing(auth)
    \/ ~HasBearerPrefix(AuthorizationHeader(auth))

\* Variant: the whole header value is hashed, the prefix not removed.
LookupHashOfHeader(auth) == Sha256Hex(AuthorizationHeader(auth))

\* The digest getUser looks up.
LookupHash(auth) == Sha256Hex(TokenOf(AuthorizationHeader(auth)))

\* console.log({auth}), reached when the entry is present and not empty.
LogAuth(auth) ==
    IF AuthMissing(auth) THEN consoleLog ELSE consoleLog \cup { [auth |-> auth] }

\* if (!user) return;  return user.user;
GetUserResult(found) ==
    IF found = NoEntry THEN NoUser ELSE found.user

(***************************************************************************)
(* Translation of the internal start specification and the response.       *)
(***************************************************************************)
\* Variant: the mode of the internal entry is copied.
WireEnvVarKeepMode(e) ==
    [name |-> e.name, value |-> e.value, mode |-> e.mode]

\* new EnvironmentVariable(); setName; setValue; setMode(OVERWRITE)
WireEnvVar(e) ==
    [name |-> e.name, value |-> e.value, mode |-> "OVERWRITE"]

\* Variant: the timeout is not copied and keeps the default of a new message.
TranslateSpecNoTimeout(o) ==
    [ admission |-> o.admission,
      checkoutLocation |-> o.checkoutLocation,
      envvars |-> [i \in DOMAIN o.envvars |-> WireEnvVar(o.envvars[i])],
      git |-> o.git,
      ideImage |-> o.ideImage,
      initializer |-> o.initializer,
      ports |-> o.ports,
      timeout |-> "",
      workspaceImage |-> o.workspaceImage,
      workspaceLocation |-> o.workspaceLocation ]

\* new StartWorkspaceSpec() and its setters.  A message-typed field (git,
\* initializer) and the port list are set to the object the getter of the
\* internal specification returns, that is to the same reference.
TranslateSpec(o) ==
    [ admission |-> o.admission,
      checkoutLocation |-> o.checkoutLocation,
      envvars |-> [i \in DOMAIN o.envvars |-> WireEnvVar(o.envvars[i])],
      git |-> o.git,
      ideImage |-> o.ideImage,
      initializer |-> o.initializer,
      ports |-> o.ports,
      timeout |-> o.timeout,
      workspaceImage |-> o.workspaceImage,
      workspaceLocation |-> o.workspaceLocation ]

\* Variant: the instance id and the workspace id change places.
BuildResponseSwapped(ws, inst, spec) ==
    [ id |-> ws.id,
      metadata |-> [metaId |-> inst.id, owner |-> ws.ownerId],
      servicePrefix |-> inst.id,
      spec |-> spec ]

\* new GetWorkspaceContextResponse() and its setters.
BuildResponse(ws, inst, spec) ==
    [ id |-> inst.id,
      metadata |-> [metaId |-> ws.id, owner |-> ws.ownerId],
      servicePrefix |-> ws.id,
      spec |-> spec ]

(***************************************************************************)
(* The handler, one action per run between two suspensions.                *)
(***************************************************************************)
Log(c, evs) == events' = [events EXCEPT ![c] = @ \o evs]

Finish(c, arg) ==
    /\ pc' = [pc EXCEPT ![c] = "done"]
    /\ cb' = [cb EXCEPT ![c] = Append(@, arg)]

Suspend(c, op) ==
    /\ pc' = [pc EXCEPT ![c] = op]
    /\ cb' = cb

\* The transport delivers calls once the server has been started.
\* server.getWorkspaceContext receives a call; getWorkspaceContext runs
\* into getUser, which returns undefined or starts the credential lookup.
Receive(c) ==
    /\ serverPc = "started"
    /\ pc[c] = "idle"
    /\ \E auth \in AuthLists, url \in ContextUrls :
        /\ metadata' = [metadata EXCEPT ![c] = auth]
        /\ request' = [request EXCEPT ![c] = url]
        /\ consoleLog' = LogAuth(auth)
        /\ IF ReturnsBeforeLookup(auth)
           THEN /\ Finish(c, CbError(Unauthenticated))
                /\ events' = events
           ELSE /\ Suspend(c, "findUserByGitpodToken")
                /\ Log(c, << Ev("call", "findUserByGitpodToken", NoUser,
                                LookupHash(auth), LookupTokenType, 0, 0) >>)
    /\ UNCHANGED << user, normalizedContextUrl, context, workspace, instance,
                    envVars, originalspec, workspaces, instances >>
    /\ UNCHANGED transVars
    /\ UNCHANGED srvVars

\* The lookup returns; getUser returns; without a user the call is
\* rejected, otherwise the URL is normalized and contextParser.handle starts.
FindUserReturn(c) ==
    /\ pc[c] = "findUserByGitpodToken"
    /\ LET found == FindUserByGitpodToken(LookupHash(metadata[c]), LookupTokenType)
           u == GetUserResult(found)
           nurl == NormalizeContextURL(request[c])
           ret == Ev("return", "findUserByGitpodToken", u,
                     LookupHash(metadata[c]), LookupTokenType, 0, 0)
       IN  IF u = NoUser
           THEN /\ Finish(c, CbError(Unauthenticated))
                /\ Log(c, << ret >>)
                /\ UNCHANGED << user, normalizedContextUrl >>
           ELSE /\ user' = [user EXCEPT ![c] = u]
                /\ normalizedContextUrl' = [normalizedContextUrl EXCEPT ![c] = nurl]
                /\ Suspend(c, "handle")
                /\ Log(c, << ret,
                             Ev("call", "normalizeContextURL", NoUser, request[c], "", 0, 0),
                             Ev("return", "normalizeContextURL", NoUser, request[c], "", 0, 0),
                             Ev("call", "handle", u, nurl, "", 0, 0) >>)
    /\ UNCHANGED << metadata, request, context, workspace, instance, envVars,
                    originalspec, consoleLog, workspaces, instances >>
    /\ UNCHANGED transVars
    /\ UNCHANGED srvVars

\* contextParser.handle returns; workspaceFactory.createForContext starts.
HandleReturn(c) ==
    /\ pc[c] = "handle"
    /\ \E ctx \in Contexts :
        /\ context' = [context EXCEPT ![c] = ctx]
        /\ Log(c, << Ev("return", "handle", user[c], normalizedContextUrl[c], "", 0, 0),
                     Ev("call", "createForContext", user[c],
                        normalizedContextUrl[c], "", 0, 0) >>)
    /\ Suspend(c, "createForContext")
    /\ UNCHANGED << metadata, request, user, normalizedContextUrl, workspace,
                    instance, envVars, originalspec, consoleLog, workspaces,
                    instances >>
    /\ UNCHANGED transVars
    /\ UNCHANGED srvVars

\* Variant: newInstance and getEnvVars are started together.
CreateForContextReturnParallel(c) ==
    /\ pc[c] = "createForContext"
    /\ LET ws == [id |-> Cardinality(workspaces) + 1, ownerId |-> user[c].id]
       IN  /\ workspace' = [workspace EXCEPT ![c] = ws]
           /\ workspaces' = workspaces \cup { ws }
           /\ Log(c, << Ev("return", "createForContext", user[c],
                           normalizedContextUrl[c], "", ws.id, 0),
                        Ev("call", "newInstance", user[c], << >>, "", ws.id, 0),
                        Ev("call", "getEnvVars", NoUser, << user[c].id >>, "", 0, 0) >>)
    /\ Suspend(c, "newInstance")
    /\ UNCHANGED << metadata, request, user, normalizedContextUrl, context,
                    instance, envVars, originalspec, consoleLog, instances >>
    /\ UNCHANGED transVars
    /\ UNCHANGED srvVars

\* Variant: newInstance is given the workspace local as it was before the
\* factory's result was assigned.
CreateForContextReturnStale(c) ==
    /\ pc[c] = "createForContext"
    /\ LET ws == [id |-> Cardinality(workspaces) + 1, ownerId |-> user[c].id]
       IN  /\ workspace' = [workspace EXCEPT ![c] = ws]
           /\ workspaces' = workspaces \cup { ws }
           /\ Log(c, << Ev("return", "createForContext", user[c],
                           normalizedContextUrl[c], "", ws.id, 0),
                        Ev("call", "newInstance", user[c], << >>, "",
                           workspace[c].id, 0) >>)
    /\ Suspend(c, "newInstance")
    /\ UNCHANGED << metadata, request, user, normalizedContextUrl, context,
                    instance, envVars, originalspec, consoleLog, instances >>
    /\ UNCHANGED transVars
    /\ UNCHANGED srvVars

\* createForContext returns the record it created for the identity it was
\* given; workspaceStarter.newInstance starts.
CreateForContextReturn(c) ==
    /\ pc[c] = "createForContext"
    /\ LET ws == [id |-> Cardinality(workspaces) + 1, ownerId |-> user[c].id]
       IN  /\ workspace' = [workspace EXCEPT ![c] = ws]
           /\ workspaces' = workspaces \cup { ws }
           /\ Log(c, << Ev("return", "createForContext", user[c],
                           normalizedContextUrl[c], "", ws.id, 0),
                        Ev("call", "newInstance", user[c], << >>, "", ws.id, 0) >>)
    /\ Suspend(c, "newInstance")
    /\ UNCHANGED << metadata, request, user, normalizedContextUrl, context,
                    instance, envVars, originalspec, consoleLog, instances >>
    /\ UNCHANGED transVars
    /\ UNCHANGED srvVars

\* newInstance returns the instance allocated for the workspace it was
\* given; userDB.getEnvVars(user.id) starts.
NewInstanceReturn(c) ==
    /\ pc[c] = "newInstance"
    /\ LET inst == [id |-> 100 + Cardinality(instances) + 1,
                    workspaceId |-> workspace[c].id]
       IN  /\ instance' = [instance EXCEPT ![c] = inst]
           /\ instances' = instances \cup { inst }
           /\ Log(c, << Ev("return", "newInstance", user[c], << >>, "",
                           workspace[c].id, inst.id),
                        Ev("call", "getEnvVars", NoUser, << user[c].id >>, "", 0, 0) >>)
    /\ Suspend(c, "getEnvVars")
    /\ UNCHANGED << metadata, request, user, normalizedContextUrl, context,
                    workspace, envVars, originalspec, consoleLog, workspaces >>
    /\ UNCHANGED transVars
    /\ UNCHANGED srvVars

\* getEnvVars returns; workspaceStarter.createSpec starts.
GetEnvVarsReturn(c) ==
    /\ pc[c] = "getEnvVars"
    /\ envVars' = [envVars EXCEPT ![c] = GetEnvVars(user[c].id)]
    /\ Log(c, << Ev("return", "getEnvVars", NoUser, << user[c].id >>, "", 0, 0),
                 Ev("call", "createSpec", user[c], << >>, "",
                    workspace[c].id, instance[c].id) >>)
    /\ Suspend(c, "createSpec")
    /\ UNCHANGED << metadata, request, user, normalizedContextUrl, context,
                    workspace, instance, originalspec, consoleLog, workspaces,
                    instances >>
    /\ UNCHANGED transVars
    /\ UNCHANGED srvVars

\* Variant: the workspace is kept in a field of the provider, shared by
\* all calls, which holds the record created last.
CreateSpecReturnSharedField(c) ==
    /\ pc[c] = "createSpec"
    /\ LET o == CreateSpecResult(workspace[c], instance[c], envVars[c])
           last == CHOOSE rec \in workspaces : rec.id = Cardinality(workspaces)
       IN  /\ originalspec' = [originalspec EXCEPT ![c] = o]
           /\ Finish(c, CbValue(BuildResponse(last, instance[c],
                                              TranslateSpec(o))))
    /\ Log(c, << Ev("return", "createSpec", user[c], << >>, "",
                    workspace[c].id, instance[c].id) >>)
    /\ UNCHANGED << metadata, request, user, normalizedContextUrl, context,
                    workspace, instance, envVars, consoleLog, workspaces,
                    instances >>
    /\ UNCHANGED transVars
    /\ UNCHANGED srvVars

\* createSpec returns; the specification is translated, the response is
\* assembled and handed to the callback.
CreateSpecReturn(c) ==
    /\ pc[c] = "createSpec"
    /\ LET o == CreateSpecResult(workspace[c], instance[c], envVars[c])
       IN  /\ originalspec' = [originalspec EXCEPT ![c] = o]
           /\ Finish(c, CbValue(BuildResponse(workspace[c], instance[c],
                                              TranslateSpec(o))))
    /\ Log(c, << Ev("return", "createSpec", user[c], << >>, "",
                    workspace[c].id, instance[c].id) >>)
    /\ UNCHANGED << metadata, request, user, normalizedContextUrl, context,
                    workspace, instance, envVars, consoleLog, workspaces,
                    instances >>
    /\ UNCHANGED transVars
    /\ UNCHANGED srvVars

\* Variant: a failing getEnvVars is caught and createSpec starts without
\* variables.
AwaitRejectsCaught(c) ==
    /\ pc[c] \in AwaitOps
    /\ IF pc[c] = "getEnvVars"
       THEN /\ Log(c, << Ev("throw", pc[c], NoUser, << >>, "", 0, 0),
                         Ev("call", "createSpec", user[c], << >>, "",
                            workspace[c].id, instance[c].id) >>)
            /\ Suspend(c, "createSpec")
       ELSE /\ Log(c, << Ev("throw", pc[c], NoUser, << >>, "", 0, 0) >>)
            /\ Finish(c, CbError(CollaboratorError(pc[c])))
    /\ UNCHANGED << metadata, request, user, normalizedContextUrl, context,
                    workspace, instance, envVars, originalspec, consoleLog,
                    workspaces, instances >>
    /\ UNCHANGED transVars
    /\ UNCHANGED srvVars

\* Variant: a rejected call is tried a second time before giving up.
AwaitRejectsRetry(c) ==
    /\ pc[c] \in AwaitOps
    /\ IF Cardinality({ i \in DOMAIN events[c] : events[c][i].op = pc[c] }) = 1
       THEN /\ Log(c, << Ev("throw", pc[c], NoUser, << >>, "", 0, 0),
                         Ev("call", pc[c], user[c], << >>, "", 0, 0) >>)
            /\ Suspend(c, pc[c])
       ELSE /\ Log(c, << Ev("throw", pc[c], NoUser, << >>, "", 0, 0) >>)
            /\ Finish(c, CbError(CollaboratorError(pc[c])))
    /\ UNCHANGED << metadata, request, user, normalizedContextUrl, context,
                    workspace, instance, envVars, originalspec, consoleLog,
                    workspaces, instances >>
    /\ UNCHANGED transVars
    /\ UNCHANGED srvVars

\* Variant: on a rejection the record and the instance created for the
\* call are deleted again.
AwaitRejectsRollback(c) ==
    /\ pc[c] \in AwaitOps
    /\ Log(c, << Ev("throw", pc[c], NoUser, << >>, "", 0, 0) >>)
    /\ Finish(c, CbError(CollaboratorError(pc[c])))
    /\ workspaces' = workspaces \ { workspace[c] }
    /\ instances' = instances \ { instance[c] }
    /\ UNCHANGED << metadata, request, user, normalizedContextUrl, context,
                    workspace, instance, envVars, originalspec, consoleLog >>
    /\ UNCHANGED transVars
    /\ UNCHANGED srvVars

\* Variant: the handler has no .catch, the rejection reaches nobody.
AwaitRejectsUnhandled(c) ==
    /\ pc[c] \in AwaitOps
    /\ Log(c, << Ev("throw", pc[c], NoUser, << >>, "", 0, 0) >>)
    /\ pc' = [pc EXCEPT ![c] = "done"]
    /\ cb' = cb
    /\ UNCHANGED << metadata, request, user, normalizedContextUrl, context,
                    workspace, instance, envVars, originalspec, consoleLog,
                    workspaces, instances >>
    /\ UNCHANGED transVars
    /\ UNCHANGED srvVars

\* The awaited collaborator call rejects: nothing catches it before the
\* handler's .catch, which hands the error to the callback.
AwaitRejects(c) ==
    /\ pc[c] \in AwaitOps
    /\ Log(c, << Ev("throw", pc[c], NoUser, << >>, "", 0, 0) >>)
    /\ Finish(c, CbError(CollaboratorError(pc[c])))
    /\ UNCHANGED << metadata, request, user, normalizedContextUrl, context,
                    workspace, instance, envVars, originalspec, consoleLog,
                    workspaces, instances >>
    /\ UNCHANGED transVars
    /\ UNCHANGED srvVars

(***************************************************************************)
(* startServer.                                                            *)
(***************************************************************************)
\* The port startServer is given.
Ports == { "0.0.0.0:9999" }

\* The error bindAsync reports when the port cannot be bound.
BindError == "EADDRINUSE"

\* Variant: server.start() is called right after bindAsync, without
\* waiting for its callback.
StartServerNoAwait ==
    /\ serverPc = "init"
    /\ \E port \in Ports : serverPc' = "binding"
    /\ starts' = starts + 1
    /\ UNCHANGED << boundPort, startServerError, infoLog >>
    /\ UNCHANGED callVars
    /\ UNCHANGED transVars

\* new grpc.Server(); addService; bindAsync is called and awaited.
StartServer ==
    /\ serverPc = "init"
    /\ \E port \in Ports : serverPc' = "binding"
    /\ UNCHANGED << boundPort, starts, startServerError, infoLog >>
    /\ UNCHANGED callVars
    /\ UNCHANGED transVars

\* The bindAsync callback reports the bound port: log.info, resolve(), and
\* startServer goes on to server.start().
BindSucceeds ==
    /\ serverPc = "binding"
    /\ \E prt \in Ports :
        /\ boundPort' = prt
        /\ infoLog' = infoLog \cup { << "remote context provider listening on ", prt >> }
    /\ starts' = starts + 1
    /\ serverPc' = "started"
    /\ UNCHANGED startServerError
    /\ UNCHANGED callVars
    /\ UNCHANGED transVars

\* The bindAsync callback reports an error: reject(err), and startServer
\* rejects with it before server.start().
BindFails ==
    /\ serverPc = "binding"
    /\ startServerError' = BindError
    /\ serverPc' = "failed"
    /\ UNCHANGED << boundPort, starts, infoLog >>
    /\ UNCHANGED callVars
    /\ UNCHANGED transVars

Next ==
    \/ StartServer
    \/ BindSucceeds
    \/ BindFails
    \/ \E c \in Calls :
        \/ Receive(c)
        \/ FindUserReturn(c)
        \/ HandleReturn(c)
        \/ CreateForContextReturn(c)
        \/ NewInstanceReturn(c)
        \/ GetEnvVarsReturn(c)
        \/ CreateSpecReturn(c)
        \/ AwaitRejects(c)

Spec == Init /\ [][Next]_vars

\* The awaited collaborator call of c settles and the task of c runs on.
CallStep(c) ==
    \/ FindUserReturn(c)
    \/ HandleReturn(c)
    \/ CreateForContextReturn(c)
    \/ NewInstanceReturn(c)
    \/ GetEnvVarsReturn(c)
    \/ CreateSpecReturn(c)
    \/ AwaitRejects(c)

\* Every collaborator call eventually returns or rejects, and the event
\* loop then runs the continuation of the task that awaits it.
SpecFair == Spec /\ \A c \in Calls : WF_vars(CallStep(c))

(***************************************************************************)
(* The translation on its own: an internal specification is drawn, it is   *)
(* translated (twice), and the objects it refers to are written through    *)
(* either specification.                                                   *)
(***************************************************************************)
\* Longest list of environment variables drawn.
MaxEnvVars == 2

EnvVarEntries ==
    [ name : { "FOO", "BAR" }, value : { "bar" }, mode : { "OVERWRITE", "APPEND" } ]

EnvVarLists == UNION { [1..n -> EnvVarEntries] : n \in 0..MaxEnvVars }

\* Internal specifications; git may be unset.
InternalSpecs ==
    [ admission : { "ADMIT_OWNER_ONLY", "ADMIT_EVERYONE" },
      checkoutLocation : { "repo" },
      envvars : EnvVarLists,
      git : { "gitObj", "" },
      ideImage : { "ide:latest" },
      initializer : { "initObj" },
      ports : { "portsArr" },
      timeout : { "30m", "" },
      workspaceImage : { "workspace:latest" },
      workspaceLocation : { "/workspace/repo" } ]

InitTranslate ==
    /\ InitCalls
    /\ InitHeap
    /\ InitServer
    /\ tpc = "start"
    /\ internalSpec \in InternalSpecs
    /\ wireSpec = NoSpec
    /\ wireSpec2 = NoSpec

\* Lines 70-86 applied to internalSpec.
Translate ==
    /\ tpc = "start"
    /\ tpc' = "translated"
    /\ wireSpec' = TranslateSpec(internalSpec)
    /\ UNCHANGED << internalSpec, wireSpec2, objHeap, arrHeap, lastWrite >>
    /\ UNCHANGED callVars
    /\ UNCHANGED srvVars

\* The same internal specification translated once more.
TranslateAgain ==
    /\ tpc = "translated"
    /\ wireSpec2 = NoSpec
    /\ wireSpec2' = TranslateSpec(internalSpec)
    /\ UNCHANGED << tpc, internalSpec, wireSpec, objHeap, arrHeap, lastWrite >>
    /\ UNCHANGED callVars
    /\ UNCHANGED srvVars

\* The specification a setter is called through.
SpecOf(side) == IF side = "internal" THEN internalSpec ELSE wireSpec

\* A field of the git or initializer message is set, reached through one
\* of the two specifications (getGit().setX(..), getInitializer().setX(..)).
MutateMessage(side, field) ==
    /\ tpc = "translated"
    /\ LET ref == SpecOf(side)[field]
       IN  /\ ref # ""
           /\ objHeap[ref] = "v0"
           /\ objHeap' = [objHeap EXCEPT ![ref] = side]
    /\ lastWrite' = side
    /\ UNCHANGED << tpc, internalSpec, wireSpec, wireSpec2, arrHeap >>
    /\ UNCHANGED callVars
    /\ UNCHANGED srvVars

\* A field of the first port entry is set (getPortsList()[0].setX(..)).
MutatePortEntry(side) ==
    /\ tpc = "translated"
    /\ LET ref == arrHeap[SpecOf(side).ports][1]
       IN  /\ objHeap[ref] = "v0"
           /\ objHeap' = [objHeap EXCEPT ![ref] = side]
    /\ lastWrite' = side
    /\ UNCHANGED << tpc, internalSpec, wireSpec, wireSpec2, arrHeap >>
    /\ UNCHANGED callVars
    /\ UNCHANGED srvVars

\* An entry is added to the port list (getPortsList().push(..)).
PushPort(side) ==
    /\ tpc = "translated"
    /\ LET ref == SpecOf(side).ports
       IN  /\ Len(arrHeap[ref]) = 1
           /\ arrHeap' = [arrHeap EXCEPT ![ref] = Append(@, "port2")]
    /\ lastWrite' = side
    /\ UNCHANGED << tpc, internalSpec, wireSpec, wireSpec2, objHeap >>
    /\ UNCHANGED callVars
    /\ UNCHANGED srvVars

NextTranslate ==
    \/ Translate
    \/ TranslateAgain
    \/ \E side \in { "internal", "wire" } :
          \/ \E field \in { "git", "initializer" } : MutateMessage(side, field)
          \/ MutatePortEntry(side)
          \/ PushPort(side)

SpecTranslate == InitTranslate /\ [][NextTranslate]_vars

\* What a reader of specification s sees: every field by value, the
\* objects read through their references.
ObjView(ref) == IF ref = "" THEN "" ELSE objHeap[ref]

View(s) ==
    [ admission |-> s.admission,
      checkoutLocation |-> s.checkoutLocation,
      envvars |-> s.envvars,
      git |-> ObjView(s.git),
      ideImage |-> s.ideImage,
      initializer |-> ObjView(s.initializer),
      ports |-> [i \in DOMAIN arrHeap[s.ports] |-> objHeap[arrHeap[s.ports][i]]],
      timeout |-> s.timeout,
      workspaceImage |-> s.workspaceImage,
      workspaceLocation |-> s.workspaceLocation ]

(***************************************************************************)
(* Properties.                                                             *)
(***************************************************************************)
Received(c) == pc[c] # "idle"

Done(c) == pc[c] = "done"

\* The events of call c that start a collaborator operation.
CallsOf(c) == { i \in DOMAIN events[c] : events[c][i].kind = "call" }

OpsCalled(c) == { events[c][i].op : i \in CallsOf(c) }

\* The metadata has no Authorization value, or its first value does not
\* start with "Bearer ".
Malformed(auth) ==
    \/ auth = << >>
    \/ Len(auth[1]) < 7
    \/ SubSeq(auth[1], 1, 7) # <<"B", "e", "a", "r", "e", "r", " ">>

\* The token a well-formed first value carries, and its digest.
BearerToken(auth) == SubSeq(auth[1], 8, Len(auth[1]))

\* The machine-auth-token credentials whose digest is that of the token.
Matching(auth) ==
    { e \in TokenEntries :
        /\ e.type = "MACHINE_AUTH_TOKEN"
        /\ e.hash = Sha256Hex(BearerToken(auth)) }

RejectedUnauthenticated(c) ==
    /\ Done(c)
    /\ cb[c] = << [err |-> << [code |-> "UNAUTHENTICATED", message |-> ""] >>,
                   value |-> << >>] >>

\* C1: a call without an Authorization value, or whose first value does
\* not start with "Bearer ", ends with UNAUTHENTICATED and invokes no
\* collaborator.
C1_MalformedIsUnauthenticated ==
    \A c \in Calls :
        (Received(c) /\ Malformed(metadata[c])) =>
            /\ RejectedUnauthenticated(c)
            /\ events[c] = << >>

C1_Witness ==
    \E c \in Calls :
        /\ metadata[c] = << HdrNoSpace >>
        /\ RejectedUnauthenticated(c)
        /\ events[c] = << >>

C3_IdentityIsCredentialOwner ==
    \A c \in Calls :
        (Received(c) /\ ~Malformed(metadata[c]) /\ Matching(metadata[c]) # {}) =>
            \A e \in Matching(metadata[c]) :
                /\ \A i \in DOMAIN events[c] :
                      /\ (events[c][i].kind = "return"
                            /\ events[c][i].op = "findUserByGitpodToken")
                           => user[c] = e.user
                      /\ (events[c][i].kind = "call"
                            /\ events[c][i].op \in
                                 { "handle", "createForContext", "newInstance",
                                   "createSpec" })
                           => events[c][i].user = e.user
                      /\ (events[c][i].kind = "call"
                            /\ events[c][i].op = "getEnvVars")
                           => events[c][i].key = << e.user.id >>
                /\ user[c] \in { NoUser, e.user }

C3_Witness ==
    \E c \in Calls :
        /\ metadata[c] = << HdrDef >>
        /\ user[c] = U2
        /\ Done(c)
        /\ "createSpec" \in OpsCalled(c)

\* The order of the collaborator calls in getWorkspaceContext.
CallOrder ==
    << "findUserByGitpodToken", "normalizeContextURL", "handle",
       "createForContext", "newInstance", "getEnvVars", "createSpec" >>

\* C4: within a call the collaborator operations are started in the order
\* of CallOrder, each only after the previous one has returned, so that at
\* most one is in flight.
C4_StrictlySequential ==
    \A c \in Calls :
        /\ Len(events[c]) <= 2 * Len(CallOrder)
        /\ \A i \in DOMAIN events[c] :
              /\ (i % 2 = 1) =>
                    /\ events[c][i].kind = "call"
                    /\ events[c][i].op = CallOrder[(i + 1) \div 2]
              /\ (i % 2 = 0) =>
                    /\ events[c][i].kind \in { "return", "throw" }
                    /\ events[c][i].op = events[c][i - 1].op
              /\ (events[c][i].kind = "throw") => i = Len(events[c])
        /\ (pc[c] \in AwaitOps) =>
              /\ Len(events[c]) % 2 = 1
              /\ events[c][Len(events[c])].op = pc[c]
        /\ (pc[c] \notin AwaitOps) => Len(events[c]) % 2 = 0

C4_Witness ==
    \E c \in Calls :
        /\ Done(c)
        /\ Len(events[c]) = 2 * Len(CallOrder)
        /\ events[c][Len(events[c])].kind = "return"

\* C5: when a step of the orchestration fails, the call ends with an
\* error, no later step is started and no response is delivered.
C5_FailureAborts ==
    \A c \in Calls :
        \A i \in DOMAIN events[c] :
            (events[c][i].kind = "throw") =>
                /\ i = Len(events[c])
                /\ Done(c)
                /\ Len(cb[c]) = 1
                /\ cb[c][1].value = << >>
                /\ Len(cb[c][1].err) = 1
                /\ (events[c][i].op = "handle") =>
                      OpsCalled(c) \cap { "createForContext", "newInstance" } = {}

C5_Witness ==
    \E c \in Calls :
        /\ Done(c)
        /\ events[c] # << >>
        /\ events[c][Len(events[c])].kind = "throw"
        /\ events[c][Len(events[c])].op = "getEnvVars"
        /\ cb[c][1].value = << >>

\* What the factory and the starter returned to call c.
ReturnedBy(c, op) ==
    { events[c][i] : i \in { j \in DOMAIN events[c] :
                               /\ events[c][j].kind = "return"
                               /\ events[c][j].op = op } }

\* C6: in a successful response metaId and servicePrefix are the id of the
\* workspace record the factory returned to this call, owner is that
\* record's owner id and id is the id of the instance allocated for this
\* call; no other call's response carries these ids.
C6_ResponseIds ==
    \A c \in Calls :
        \A k \in DOMAIN cb[c] :
            \A r \in { cb[c][k].value[j] : j \in DOMAIN cb[c][k].value } :
                /\ \E w \in ReturnedBy(c, "createForContext") :
                      /\ r.metadata.metaId = w.ws
                      /\ r.servicePrefix = w.ws
                      /\ \E rec \in workspaces :
                            rec.id = w.ws /\ r.metadata.owner = rec.ownerId
                /\ \E n \in ReturnedBy(c, "newInstance") : r.id = n.inst
                /\ \A d \in Calls \ { c } :
                      \A m \in DOMAIN cb[d] :
                          \A q \in { cb[d][m].value[j] : j \in DOMAIN cb[d][m].value } :
                              /\ q.id # r.id
                              /\ q.servicePrefix # r.servicePrefix
                              /\ q.metadata.metaId # r.metadata.metaId

C6_Witness ==
    \E c, d \in Calls :
        /\ c # d
        /\ Done(c) /\ Done(d)
        /\ Len(cb[c]) = 1 /\ Len(cb[d]) = 1
        /\ Len(cb[c][1].value) = 1 /\ Len(cb[d][1].value) = 1
        /\ cb[c][1].value[1].metadata.owner = "U1"
        /\ cb[d][1].value[1].metadata.owner = "U2"
        /\ cb[c][1].value[1].id # cb[c][1].value[1].servicePrefix

Translated == tpc = "translated"

\* C7: the wire list of environment variables has the length and order of
\* the internal one, each entry keeps name and value, and every mode is
\* OVERWRITE whatever the internal mode was.
C7_EnvVarsOverwrite ==
    Translated =>
        /\ Len(wireSpec.envvars) = Len(internalSpec.envvars)
        /\ \A i \in DOMAIN internalSpec.envvars :
              /\ wireSpec.envvars[i].name = internalSpec.envvars[i].name
              /\ wireSpec.envvars[i].value = internalSpec.envvars[i].value
              /\ wireSpec.envvars[i].mode = "OVERWRITE"

C7_Witness ==
    /\ Translated
    /\ Len(internalSpec.envvars) = 2
    /\ internalSpec.envvars[1] = [name |-> "FOO", value |-> "bar", mode |-> "APPEND"]
    /\ internalSpec.envvars[2].name = "BAR"
    /\ wireSpec.envvars[1] = [name |-> "FOO", value |-> "bar", mode |-> "OVERWRITE"]

CopiedFields ==
    { "admission", "checkoutLocation", "git", "ideImage", "initializer",
      "ports", "timeout", "workspaceImage", "workspaceLocation" }

C9_NoSharedMutableState ==
    [][ /\ (Translated /\ lastWrite' # lastWrite /\ lastWrite' = "internal")
            => View(wireSpec)' = View(wireSpec)
        /\ (Translated /\ lastWrite' # lastWrite /\ lastWrite' = "wire")
            => View(internalSpec)' = View(internalSpec) ]_vars

\* C10: credential resolution never writes the raw bearer token, nor the
\* Authorization value that contains it, to the log; what it hands to the
\* credential lookup is the digest of the token and not the token.
C10_RawTokenNeverLogged ==
    /\ \A l \in consoleLog :
          \A i \in DOMAIN l.auth :
              ~(/\ Len(l.auth[i]) >= 7
                /\ SubSeq(l.auth[i], 1, 7) = <<"B", "e", "a", "r", "e", "r", " ">>)
    /\ \A c \in Calls :
          \A i \in CallsOf(c) :
              (events[c][i].op = "findUserByGitpodToken") =>
                  /\ events[c][i].key = Sha256Hex(BearerToken(metadata[c]))
                  /\ events[c][i].key # BearerToken(metadata[c])

\* The half of C10 the code keeps: the lookup key is the digest.
C10_LookupKeyIsDigest ==
    \A c \in Calls :
        \A i \in CallsOf(c) :
            (events[c][i].op = "findUserByGitpodToken") =>
                /\ events[c][i].key = Sha256Hex(BearerToken(metadata[c]))
                /\ events[c][i].key # BearerToken(metadata[c])

\* The error values handed to the callback of call c.
ErrorsDelivered(c) ==
    UNION { { cb[c][k].err[j] : j \in DOMAIN cb[c][k].err } : k \in DOMAIN cb[c] }

\* A collaborator of call c rejected.
SomeStepFailed(c) ==
    \E i \in DOMAIN events[c] : events[c][i].kind = "throw"

\* The call failed: it was refused, or a collaborator rejected.
Failed(c) ==
    \/ SomeStepFailed(c)
    \/ Received(c) /\ Malformed(metadata[c])
    \/ /\ Len(events[c]) >= 2
       /\ events[c][2].kind = "return"
       /\ Matching(metadata[c]) = {}

\* C11: a failure reaches the caller as a status code only: the error of
\* an authentication failure is the UNAUTHENTICATED code and nothing else,
\* the error of a collaborator failure carries nothing of the
\* collaborator's error, and a failed call gets one reply, which is an
\* error and not a response.
C11_StatusCodeOnly ==
    \A c \in Calls :
        /\ Failed(c) =>
              /\ Done(c)
              /\ Len(cb[c]) = 1
              /\ cb[c][1].value = << >>
              /\ Len(cb[c][1].err) = 1
        /\ (Failed(c) /\ ~SomeStepFailed(c)) =>
              ErrorsDelivered(c) = { [code |-> "UNAUTHENTICATED", message |-> ""] }
        /\ \A e \in ErrorsDelivered(c) : e.message = ""

\* The parts of C11 the code keeps: one reply per failed call, an error
\* and no response, and the bare UNAUTHENTICATED code when the call was
\* refused.
C11_FailureIsReported ==
    \A c \in Calls :
        /\ Failed(c) =>
              /\ Done(c)
              /\ Len(cb[c]) = 1
              /\ cb[c][1].value = << >>
              /\ Len(cb[c][1].err) = 1
        /\ (Failed(c) /\ ~SomeStepFailed(c)) =>
              ErrorsDelivered(c) = { [code |-> "UNAUTHENTICATED", message |-> ""] }

\* How often call c has started operation op.
TimesCalled(c, op) ==
    Cardinality({ i \in CallsOf(c) : events[c][i].op = op })

\* C13: within a call every collaborator operation is started at most
\* once, whether it succeeds or fails, and after a failure the core starts
\* no further call (no retry, no compensation).
C13_NoRetry ==
    \A c \in Calls :
        /\ \A op \in AwaitOps \cup { "normalizeContextURL" } : TimesCalled(c, op) <= 1
        /\ \A i \in DOMAIN events[c] :
              (events[c][i].kind = "throw") =>
                  /\ CallsOf(c) \subseteq 1..i
                  /\ Done(c)

C13_Witness ==
    \E c \in Calls :
        /\ Done(c)
        /\ Len(events[c]) = 8
        /\ events[c][8].kind = "throw"
        /\ events[c][8].op = "createForContext"
        /\ TimesCalled(c, "createForContext") = 1
        /\ TimesCalled(c, "findUserByGitpodToken") = 1

\* C16: the workspace factory and the instance starter are invoked only
\* after, in the same call, the credential lookup returned an identity,
\* and with that identity; the instance is allocated for the workspace
\* record the factory returned in that call.
C16_CreatedOnlyWhenAuthenticated ==
    \A c \in Calls :
        \A i \in CallsOf(c) :
            /\ (events[c][i].op \in { "createForContext", "newInstance" }) =>
                  \E j \in 1..(i - 1) :
                      /\ events[c][j].kind = "return"
                      /\ events[c][j].op = "findUserByGitpodToken"
                      /\ events[c][j].user # NoUser
                      /\ events[c][j].user = events[c][i].user
            /\ (events[c][i].op = "newInstance") =>
                  /\ \E j \in 1..(i - 1) :
                        /\ events[c][j].kind = "return"
                        /\ events[c][j].op = "createForContext"
                        /\ events[c][j].ws = events[c][i].ws
                  /\ \E rec \in workspaces : rec.id = events[c][i].ws
                  /\ \A n \in ReturnedBy(c, "newInstance") :
                        \E inst \in instances :
                            /\ inst.id = n.inst
                            /\ inst.workspaceId = events[c][i].ws

C16_Witness ==
    \E c \in Calls :
        /\ metadata[c] = << HdrAbc, HdrLower >>
        /\ ReturnedBy(c, "newInstance") # {}
        /\ \E inst \in instances : inst.workspaceId = workspace[c].id

\* C17: when a step fails after the workspace record (and possibly the
\* instance) of the call was created, the caller gets an error and no
\* response, and what was created is still held by the factory and the
\* starter: the core does not remove it.
C17_CreatedRecordRemains ==
    \A c \in Calls :
        SomeStepFailed(c) =>
            /\ \A w \in ReturnedBy(c, "createForContext") :
                  /\ \E rec \in workspaces : rec.id = w.ws
                  /\ Len(cb[c]) = 1
                  /\ cb[c][1].value = << >>
                  /\ Len(cb[c][1].err) = 1
            /\ \A n \in ReturnedBy(c, "newInstance") :
                  \E inst \in instances : inst.id = n.inst

\* A workspace and an instance exist for a call that was answered with an
\* error.
C17_Witness ==
    \E c \in Calls :
        /\ Done(c)
        /\ SomeStepFailed(c)
        /\ cb[c][1].value = << >>
        /\ workspace[c] \in workspaces
        /\ instance[c] \in instances
        /\ events[c][Len(events[c])].op = "createSpec"

\* What the credential lookup returned to call c.
LookupReturns(c) == ReturnedBy(c, "findUserByGitpodToken")

\* C18: of several Authorization values only the first decides: the
\* lookup is made exactly when the first value starts with "Bearer ", its
\* key is the digest of the rest of that value (also when the rest is
\* empty), and the call is authenticated exactly when a machine-auth-token
\* credential has that digest.
C18_FirstValueDecides ==
    \A c \in Calls :
        Received(c) =>
            /\ Malformed(metadata[c]) => TimesCalled(c, "findUserByGitpodToken") = 0
            /\ ~Malformed(metadata[c]) =>
                  /\ TimesCalled(c, "findUserByGitpodToken") = 1
                  /\ events[c][1].key = Sha256Hex(SubSeq(metadata[c][1], 8,
                                                         Len(metadata[c][1])))
            /\ \A r \in LookupReturns(c) :
                  /\ (r.user # NoUser) <=> (Matching(metadata[c]) # {})
                  /\ (r.user # NoUser) <=> ("handle" \in OpsCalled(c))

C18_Witness ==
    \E c, d \in Calls :
        /\ metadata[c] = << HdrAbc, HdrLower >>
        /\ "handle" \in OpsCalled(c)
        /\ metadata[d] = << HdrEmptyTok >>
        /\ LookupReturns(d) # {}
        /\ events[d][1].key = Sha256Hex(<< >>)
        /\ RejectedUnauthenticated(d)

\* A valid second value does not help a call whose first value is not a
\* bearer value.
C18_WitnessSecondIgnored ==
    \E c \in Calls :
        /\ metadata[c] = << HdrLower, HdrAbc >>
        /\ RejectedUnauthenticated(c)
        /\ events[c] = << >>

\* Everything the core holds for call c.
LocalOf(c) ==
    << pc[c], metadata[c], request[c], user[c], normalizedContextUrl[c],
       context[c], workspace[c], instance[c], envVars[c], originalspec[c],
       events[c], cb[c] >>

\* The reply call c must get, computed from its own metadata and from what
\* its own collaborator calls returned or threw, and from nothing else.
OwnOutcome(c) ==
    LET n == Len(events[c])
        refused == << [err |-> << [code |-> "UNAUTHENTICATED", message |-> ""] >>,
                       value |-> << >>] >>
    IN  IF Malformed(metadata[c]) THEN refused
        ELSE IF events[c][n].kind = "throw"
        THEN << [err |-> << [code |-> "", message |-> events[c][n].op] >>,
                 value |-> << >>] >>
        ELSE IF events[c][n].op = "findUserByGitpodToken" THEN refused
        ELSE LET w == CHOOSE e \in ReturnedBy(c, "createForContext") : TRUE
                 i == CHOOSE e \in ReturnedBy(c, "newInstance") : TRUE
                 u == CHOOSE e \in LookupReturns(c) : TRUE
             IN  << [err |-> << >>,
                     value |-> << [ id |-> i.inst,
                                    metadata |-> [metaId |-> w.ws,
                                                  owner |-> u.user.id],
                                    servicePrefix |-> w.ws,
                                    spec |-> [originalspec[c] EXCEPT
                                        !.envvars = [k \in DOMAIN @ |->
                                            [@[k] EXCEPT !.mode = "OVERWRITE"]]] ] >>] >>

\* C12: under any interleaving a step of one call changes nothing the core
\* holds for another call, and the reply of a call is determined by its
\* own metadata, its own request and the results its own collaborator
\* calls returned; a failure of one call leaves the others as they were.
C12_CallsAreIndependent ==
    [][ \A c \in Calls :
          /\ (LocalOf(c)' # LocalOf(c)) =>
                \A d \in Calls \ { c } : LocalOf(d)' = LocalOf(d)
          /\ Done(c)' => cb[c]' = OwnOutcome(c)' ]_vars

\* One call failed, and another one, started before that failure and
\* finished after it, was answered with its own workspace.
C12_Witness ==
    \E c, d \in Calls :
        /\ c # d
        /\ Done(c) /\ SomeStepFailed(c)
        /\ workspace[c].id = 2
        /\ Done(d)
        /\ Len(cb[d][1].value) = 1
        /\ cb[d][1].value[1].metadata.metaId = 1
        /\ instance[d].id > instance[c].id
        /\ instance[c].id > 0

\* C14: server.start() is called only after the listener was bound, and
\* then exactly once; when the bind fails startServer fails with the bind
\* error and the server is never started, and no call is served.
C14_StartOnlyAfterBind ==
    /\ starts <= 1
    /\ (starts > 0) => boundPort # ""
    /\ (serverPc = "started") => (starts = 1 /\ boundPort # "" /\ startServerError = "")
    /\ (serverPc = "failed") =>
          /\ starts = 0
          /\ boundPort = ""
          /\ startServerError = "EADDRINUSE"
    /\ (serverPc \in { "init", "binding" }) => (starts = 0 /\ startServerError = "")
    /\ (\E c \in Calls : Received(c)) => (starts = 1 /\ boundPort # "")

C14_Witness ==
    /\ serverPc = "started"
    /\ starts = 1
    /\ boundPort = "0.0.0.0:9999"
    /\ \E c \in Calls : Done(c)

\* The bind failed: startServer has rejected and nothing was started.
C14_WitnessBindFailed ==
    /\ serverPc = "failed"
    /\ starts = 0
    /\ startServerError = "EADDRINUSE"

\* C15: for every call the handler received the callback is invoked at
\* most once, with either an error or a response and never both; a call
\* has ended exactly when its callback was invoked; and, every awaited
\* collaborator call settling, from some point on every received call
\* has had its callback invoked (a received call stays received, so each
\* received call eventually gets its callback).
C15_CallbackExactlyOnce ==
    /\ [](\A c \in Calls :
            /\ Len(cb[c]) <= 1
            /\ Done(c) <=> (Len(cb[c]) = 1)
            /\ (~Received(c)) => cb[c] = << >>
            /\ \A k \in DOMAIN cb[c] :
                  Len(cb[c][k].err) + Len(cb[c][k].value) = 1)
    /\ <>[](\A c \in Calls : Received(c) => Len(cb[c]) = 1)

C15_Witness ==
    \E c, d \in Calls :
        /\ Len(cb[c]) = 1 /\ Len(cb[c][1].value) = 1 /\ cb[c][1].err = << >>
        /\ Len(cb[d]) = 1 /\ Len(cb[d][1].err) = 1 /\ cb[d][1].value = << >>
        /\ SomeStepFailed(d)

====
